---- MODULE Spec2Model ----
(***************************************************************************)
(* Model of src/helix/moderation.rs: the five moderation endpoints of the  *)
(* Helix binding (request descriptors, their typed builders, the query     *)
(* and body they serialize to, the record schemas their responses decode   *)
(* to, and the pagination cursor).                                         *)
(*                                                                         *)
(* Representation of text.  A Rust String is a sequence of tokens; a token *)
(* is either a maximal run of bytes of the form-urlencoding unreserved set *)
(* (ASCII letters, digits, '*', '-', '.', '_') or one single byte outside  *)
(* that set.  "a b" is <<"a", " ", "b">>, "" is <<>>.  Byte-wise           *)
(* conversions (percent encoding, JSON escaping) are then token-wise maps. *)
(* Option<T> is a sequence of length at most one: None is <<>>, Some(x)    *)
(* is <<x>>.  Vec<T> is a sequence.                                        *)
(*                                                                         *)
(* The provided methods of the helix traits (get_uri, parse_response) and  *)
(* the client that pages through a listing are defined outside this file;  *)
(* they follow sections 4.2, 4.4, 4.5 and 6 of the specification.          *)
(***************************************************************************)
EXTENDS Integers, Sequences, FiniteSets, TLC

VARIABLES
    strict,     \* build configuration: feature "allow_unknown_fields" is off
    granted,    \* the scopes of the bearer credential the caller dispatches with
    builder,    \* Option<typed builder being filled: [kind, given]>
    req,        \* Option<request descriptor>
    uri,        \* Option<query-encoded URI>, tokens, of the last get_uri
    posted,     \* Option<Vec<CheckAutoModStatusBody>>: the records the caller posts
    body,       \* Option<Result<JSON text>> of the last body()
    wire,       \* Option<response payload> handed back by the HTTP capability
    resp,       \* Option<Result<envelope>> of the last parse_response
    pc,         \* position of the caller in one logical call
    pages       \* number of times the cursor was set on the descriptor since it was
                \* built: the pages a listing went on to

vars == <<strict, granted, builder, req, uri, posted, body, wire, resp, pc, pages>>

----------------------------------------------------------------------------
(* Bounds of the model *)

\* longest user_id filter list a builder is given
MaxUsers == 2
\* most pages one listing fetches
MaxPages == 2
\* most records in a POST body
MaxBody == 2

----------------------------------------------------------------------------
(* Text helpers *)

None == <<>>
Some(x) == <<x>>

RECURSIVE Str(_)
\* the String a token sequence stands for
Str(s) == IF s = <<>> THEN "" ELSE Head(s) \o Str(Tail(s))

RECURSIVE Flatten(_)
\* concatenation of a sequence of sequences
Flatten(ss) == IF ss = <<>> THEN <<>> ELSE Head(ss) \o Flatten(Tail(ss))

\* the elements of a sequence
Range(s) == {s[i] : i \in DOMAIN s}

\* the finite function with the single pair k |-> v
Single(k, v) == [x \in {k} |-> v]

----------------------------------------------------------------------------
(* The five request descriptors: field lists in declaration order *)

GetModeratorsRequest == <<"broadcaster_id", "after">>

GetModeratorEventsRequest == <<"broadcaster_id", "user_id", "after">>

GetBannedUsersRequest == <<"broadcaster_id", "user_id", "after">>

\* GetBannedEventsRequest with `after` declared before `user_id`
GetBannedEventsRequest_Reordered == <<"broadcaster_id", "after", "user_id", "first">>

GetBannedEventsRequest == <<"broadcaster_id", "user_id", "after", "first">>

CheckAutoModStatusRequest == <<"broadcaster_id">>

Kinds == {"GetModeratorsRequest", "GetModeratorEventsRequest", "GetBannedUsersRequest",
          "GetBannedEventsRequest", "CheckAutoModStatusRequest"}

\* the struct declared for a kind of request
Fields(kind) ==
    CASE kind = "GetModeratorsRequest" -> GetModeratorsRequest
      [] kind = "GetModeratorEventsRequest" -> GetModeratorEventsRequest
      [] kind = "GetBannedUsersRequest" -> GetBannedUsersRequest
      [] kind = "GetBannedEventsRequest" -> GetBannedEventsRequest
      [] kind = "CheckAutoModStatusRequest" -> CheckAutoModStatusRequest

\* PATH with the path of get_banned_users pasted into get_banned_events
PATH_Pasted(kind) ==
    CASE kind = "GetModeratorsRequest" -> "moderation/moderators"
      [] kind = "GetModeratorEventsRequest" -> "moderation/moderators/events"
      [] kind = "GetBannedUsersRequest" -> "moderation/banned"
      [] kind = "GetBannedEventsRequest" -> "moderation/banned"
      [] kind = "CheckAutoModStatusRequest" -> "moderation/enforcements/status"

\* const PATH of impl helix::Request
PATH(kind) ==
    CASE kind = "GetModeratorsRequest" -> "moderation/moderators"
      [] kind = "GetModeratorEventsRequest" -> "moderation/moderators/events"
      [] kind = "GetBannedUsersRequest" -> "moderation/banned"
      [] kind = "GetBannedEventsRequest" -> "moderation/banned/events"
      [] kind = "CheckAutoModStatusRequest" -> "moderation/enforcements/status"

\* the request types with impl helix::Paginated
Paginated == {"GetModeratorsRequest", "GetModeratorEventsRequest",
              "GetBannedUsersRequest", "GetBannedEventsRequest"}

\* the request types with impl helix::RequestPost (the others are RequestGet)
RequestPost == {"CheckAutoModStatusRequest"}

----------------------------------------------------------------------------
(* Scopes *)

\* twitch_oauth2::Scope::ModerationRead
ModerationRead == "moderation:read"

\* SCOPE with the scope left out of check_automod_status
SCOPE_Unscoped(kind) ==
    IF kind = "CheckAutoModStatusRequest" THEN {} ELSE {ModerationRead}

\* const SCOPE of impl helix::Request (declared under feature "twitch_oauth2")
SCOPE(kind) ==
    CASE kind = "GetModeratorsRequest" -> {ModerationRead}
      [] kind = "GetModeratorEventsRequest" -> {ModerationRead}
      [] kind = "GetBannedUsersRequest" -> {ModerationRead}
      [] kind = "GetBannedEventsRequest" -> {ModerationRead}
      [] kind = "CheckAutoModStatusRequest" -> {ModerationRead}

\* the scope sets of the credentials a caller may hold: one that covers the
\* moderation endpoints and one that does not
Credentials == {{ModerationRead}, {"bits:read"}}

----------------------------------------------------------------------------
(* Typed builders (derive typed_builder::TypedBuilder) *)

\* fields without #[builder(default)]: build() exists only once they are set
Mandatory(kind) == {"broadcaster_id"}

\* BuilderDefault with the platform's default page size written into `first`
BuilderDefault_PageSize(field) ==
    CASE field = "user_id" -> <<>>
      [] field = "after" -> None
      [] field = "first" -> Some(20)

\* the value #[builder(default)] gives a field that was not supplied:
\* Vec::default(), Option::default()
BuilderDefault(field) ==
    CASE field = "user_id" -> <<>>
      [] field = "after" -> None
      [] field = "first" -> None

\* build(): the descriptor of a builder whose mandatory fields are all given
BuildRequest(b) ==
    [f \in {"kind"} \cup Range(Fields(b.kind)) |->
        IF f = "kind" THEN b.kind
        ELSE IF f \in DOMAIN b.given THEN b.given[f]
        ELSE BuilderDefault(f)]

----------------------------------------------------------------------------
(* Values the caller supplies *)

BroadcasterIds == {<<"198704263">>, <<"a", " ", "b">>}

UserIds == {<<"2">>, <<"x", "&", "y">>}

Cursors == {<<>>, <<"eyJiIjpudWxs">>, <<"abc", "=">>}

Firsts == {1, 100}

\* all sequences over S of length at most n
SeqUpTo(S, n) == UNION {[1..k -> S] : k \in 0..n}

\* the values a setter of the builder accepts for a field
SetterValues(field) ==
    CASE field = "broadcaster_id" -> BroadcasterIds
      [] field = "user_id" -> SeqUpTo(UserIds, MaxUsers)
      [] field = "after" -> {None} \cup {Some(c) : c \in Cursors}
      [] field = "first" -> {None} \cup {Some(n) : n \in Firsts}

----------------------------------------------------------------------------
(* URI builder *)

\* byte_serialize of application/x-www-form-urlencoded, on one token
EncodeToken(t) ==
    CASE t = " " -> "+"
      [] t = "&" -> "%26"
      [] t = "=" -> "%3D"
      [] t = "+" -> "%2B"
      [] t = "%" -> "%25"
      [] t = ":" -> "%3A"
      [] t = "/" -> "%2F"
      [] OTHER -> t

FormEncode(s) == [i \in DOMAIN s |-> EncodeToken(s[i])]

\* FieldType with `after` declared a bare helix::Cursor, not an Option
FieldType_BareCursor(field) ==
    CASE field = "broadcaster_id" -> "String"
      [] field = "user_id" -> "Vec<String>"
      [] field = "after" -> "String"
      [] field = "first" -> "Option<usize>"

\* the declared type of a descriptor field
FieldType(field) ==
    CASE field = "broadcaster_id" -> "String"
      [] field = "user_id" -> "Vec<String>"
      [] field = "after" -> "Option<String>"
      [] field = "first" -> "Option<usize>"

\* the (name, value) pairs a field of a type serializes to: a sequence gives
\* one pair per element, None gives none
SerializeField(field, type, v) ==
    CASE type = "String" -> << <<field, v>> >>
      [] type = "Vec<String>" -> [i \in DOMAIN v |-> <<field, v[i]>>]
      [] type = "Option<String>" -> IF v = None THEN <<>> ELSE << <<field, v[1]>> >>
      [] type = "Option<usize>" ->
            IF v = None THEN <<>> ELSE << <<field, <<ToString(v[1])>> >> >>

\* the pairs of a descriptor, field after field in declaration order
QueryPairs(r) ==
    Flatten([i \in DOMAIN Fields(r.kind) |->
                SerializeField(Fields(r.kind)[i], FieldType(Fields(r.kind)[i]),
                               r[Fields(r.kind)[i]])])

RECURSIVE JoinPairs(_)
\* name=value joined by '&', names and values form-urlencoded
JoinPairs(ps) ==
    IF ps = <<>> THEN <<>>
    ELSE FormEncode(<<Head(ps)[1]>>) \o <<"=">> \o FormEncode(Head(ps)[2])
         \o (IF Tail(ps) = <<>> THEN <<>> ELSE <<"&">> \o JoinPairs(Tail(ps)))

\* query(): the query string of a descriptor
Query(r) == JoinPairs(QueryPairs(r))

TWITCH_HELIX_URL == "https://api.twitch.tv/helix/"

\* get_uri(): origin, path, '?', query
GetUriOf(r) == <<TWITCH_HELIX_URL, PATH(r.kind), "?">> \o Query(r)

----------------------------------------------------------------------------
(* Body builder *)

\* the body-parameter records a caller posts
BodyRecords ==
    {[msg_id |-> <<"test1">>, msg_text |-> <<"automod", " ", "please">>, user_id |-> <<"1234">>],
     [msg_id |-> <<"123">>, msg_text |-> <<"say", " ", "\"", "hi", "\"">>, user_id |-> <<"5">>]}

\* struct CheckAutoModStatusBody: field names in declaration order
CheckAutoModStatusBody == <<"msg_id", "msg_text", "user_id">>

\* serde_json's escaping of one token inside a JSON string
EscapeToken(t) ==
    CASE t = "\"" -> "\\\""
      [] t = "\\" -> "\\\\"
      [] OTHER -> t

\* a JSON string literal
JsonString(s) == <<"\"">> \o [i \in DOMAIN s |-> EscapeToken(s[i])] \o <<"\"">>

RECURSIVE JoinComma(_)
\* token sequences joined by ','
JoinComma(ss) ==
    IF ss = <<>> THEN <<>>
    ELSE Head(ss) \o (IF Tail(ss) = <<>> THEN <<>> ELSE <<",">> \o JoinComma(Tail(ss)))

\* derive(Serialize) of CheckAutoModStatusBody: an object, members in field order
SerializeBodyRecord(b) ==
    <<"{">>
    \o JoinComma([i \in DOMAIN CheckAutoModStatusBody |->
                    JsonString(<<CheckAutoModStatusBody[i]>>) \o <<":">>
                    \o JsonString(b[CheckAutoModStatusBody[i]])])
    \o <<"}">>

\* the one member of struct InnerBody
InnerBodyKey == "data"

\* body() that serializes the records without the wrapping object
BodyOf_Unwrapped(bs) ==
    [ok |-> TRUE,
     text |-> <<"[">> \o JoinComma([i \in DOMAIN bs |-> SerializeBodyRecord(bs[i])])
              \o <<"]">>]

\* body() that gives back the text cut short of its closing brace
BodyOf_Truncated(bs) ==
    [ok |-> TRUE,
     text |-> <<"{">> \o JsonString(<<InnerBodyKey>>) \o <<":", "[">>
              \o JoinComma([i \in DOMAIN bs |-> SerializeBodyRecord(bs[i])])
              \o <<"]">>]

\* body(): serde_json::to_string(&InnerBody { data: &body })
BodyOf(bs) ==
    [ok |-> TRUE,
     text |-> <<"{">> \o JsonString(<<InnerBodyKey>>) \o <<":", "[">>
              \o JoinComma([i \in DOMAIN bs |-> SerializeBodyRecord(bs[i])])
              \o <<"]", "}">>]

----------------------------------------------------------------------------
(* JSON values of a response payload *)

JStr(s) == [t |-> "str", v |-> s]
\* a literal, held as its text
JBool(b) == [t |-> "bool", v |-> IF b THEN <<"true">> ELSE <<"false">>]
JNull == [t |-> "null", v |-> <<>>]
JNum(n) == [t |-> "num", v |-> <<ToString(n)>>]
JArr(xs) == [t |-> "arr", v |-> xs]
\* an object: a function from member names to values
JObj(f) == [t |-> "obj", v |-> f]

----------------------------------------------------------------------------
(* Record schemas: (field, type) in declaration order *)

Moderator == << <<"user_id", "String">>, <<"user_name", "String">> >>

ModeratorEvent ==
    << <<"id", "String">>, <<"event_type", "String">>, <<"event_timestamp", "String">>,
       <<"version", "String">>, <<"event_data", "HashMap">> >>

BannedUser ==
    << <<"user_id", "String">>, <<"user_name", "String">>, <<"expires_at", "Option">> >>

\* BannedEvent with event_timestamp declared under the name `timestamp`
BannedEvent_Misnamed ==
    << <<"id", "String">>, <<"event_type", "String">>, <<"timestamp", "String">>,
       <<"version", "String">>, <<"event_data", "HashMap">> >>

BannedEvent ==
    << <<"id", "String">>, <<"event_type", "String">>, <<"event_timestamp", "String">>,
       <<"version", "String">>, <<"event_data", "HashMap">> >>

\* CheckAutoModStatus with is_permitted declared a String
CheckAutoModStatus_Retyped == << <<"msg_id", "String">>, <<"is_permitted", "String">> >>

CheckAutoModStatus == << <<"msg_id", "String">>, <<"is_permitted", "bool">> >>

\* type Response = Vec<...> of impl helix::Request
ResponseSchema(kind) ==
    CASE kind = "GetModeratorsRequest" -> Moderator
      [] kind = "GetModeratorEventsRequest" -> ModeratorEvent
      [] kind = "GetBannedUsersRequest" -> BannedUser
      [] kind = "GetBannedEventsRequest" -> BannedEvent
      [] kind = "CheckAutoModStatusRequest" -> CheckAutoModStatus

\* DenyUnknownFields with the attribute missing from struct BannedUser
DenyUnknownFields_NotOnBannedUser(kind, strictCfg) ==
    strictCfg /\ kind # "GetBannedUsersRequest"

\* cfg_attr(not(feature = "allow_unknown_fields"), serde(deny_unknown_fields)),
\* carried by every one of the five record structs
DenyUnknownFields(kind, strictCfg) == strictCfg

SchemaNames(schema) == {schema[i][1] : i \in DOMAIN schema}

\* whether a member (present or not) deserializes into a field of a type
FieldOk(type, present, jv) ==
    CASE type = "String" -> present /\ jv.t = "str"
      [] type = "bool" -> present /\ jv.t = "bool"
      [] type = "Option" -> ~present \/ jv.t \in {"null", "str"}
      [] type = "HashMap" ->
            /\ present
            /\ jv.t = "obj"
            /\ \A k \in DOMAIN jv.v : jv.v[k].t = "str"

\* the Rust value a member deserializes to
FieldValue(type, present, jv) ==
    CASE type = "String" -> jv.v
      [] type = "bool" -> jv.v = <<"true">>
      [] type = "Option" -> IF present /\ jv.t = "str" THEN Some(jv.v) ELSE None
      [] type = "HashMap" -> [k \in DOMAIN jv.v |-> jv.v[k].v]

\* derive(Deserialize) of a record struct, on one element of "data"
RecordOk(schema, deny, jv) ==
    /\ jv.t = "obj"
    /\ deny => DOMAIN jv.v \subseteq SchemaNames(schema)
    /\ \A i \in DOMAIN schema :
         FieldOk(schema[i][2], schema[i][1] \in DOMAIN jv.v,
                 IF schema[i][1] \in DOMAIN jv.v THEN jv.v[schema[i][1]] ELSE JNull)

RecordValue(schema, jv) ==
    [n \in SchemaNames(schema) |->
        LET i == CHOOSE j \in DOMAIN schema : schema[j][1] = n IN
          FieldValue(schema[i][2], n \in DOMAIN jv.v,
                     IF n \in DOMAIN jv.v THEN jv.v[n] ELSE JNull)]

----------------------------------------------------------------------------
(* Response decoder and paginator *)

\* the "pagination" member: may be absent, its "cursor" may be absent
PaginationOk(p) ==
    "pagination" \in DOMAIN p.v =>
        /\ p.v["pagination"].t = "obj"
        /\ "cursor" \in DOMAIN p.v["pagination"].v =>
               p.v["pagination"].v["cursor"].t \in {"null", "str"}

PaginationValue(p) ==
    IF /\ "pagination" \in DOMAIN p.v
       /\ "cursor" \in DOMAIN p.v["pagination"].v
       /\ p.v["pagination"].v["cursor"].t = "str"
    THEN Some(p.v["pagination"].v["cursor"].v)
    ELSE None

\* failure of a call, as returned to the caller
Failure(what) == [ok |-> FALSE, err |-> what, data |-> <<>>, pagination |-> None]

\* parse_response(): the envelope a payload decodes to, or a decode error
ParseResponseOf(kind, strictCfg, p) ==
    IF /\ p.t = "obj"
       /\ "data" \in DOMAIN p.v
       /\ p.v["data"].t = "arr"
       /\ \A i \in DOMAIN p.v["data"].v :
            RecordOk(ResponseSchema(kind), DenyUnknownFields(kind, strictCfg), p.v["data"].v[i])
       /\ PaginationOk(p)
    THEN [ok |-> TRUE, err |-> "",
          data |-> [i \in DOMAIN p.v["data"].v |->
                      RecordValue(ResponseSchema(kind), p.v["data"].v[i])],
          pagination |-> PaginationValue(p)]
    ELSE Failure("decode")

\* set_pagination that leaves the descriptor as it was
set_pagination_Dropped(r, cursor) == r

\* set_pagination that also puts the page size back to its default
set_pagination_ClearsLimit(r, cursor) ==
    [f \in DOMAIN r |-> IF f = "after" THEN cursor
                        ELSE IF f = "first" THEN None
                        ELSE r[f]]

\* set_pagination that keeps a cursor the descriptor already holds
set_pagination_OnlyIfUnset(r, cursor) ==
    IF r.after = None THEN [r EXCEPT !.after = cursor] ELSE r

\* set_pagination(&mut self, cursor): self.after = cursor
set_pagination(r, cursor) == [r EXCEPT !.after = cursor]

\* HasCursor that takes an empty cursor for a cursor
HasCursor_AnyCursor(env) == env.ok /\ env.pagination # None

\* state HasCursor of the paginator: the envelope carries a non-empty cursor
HasCursor(env) == env.ok /\ env.pagination # None /\ env.pagination[1] # <<>>

\* the descriptor of the next page, if there is one
NextRequest(r, env) ==
    IF r.kind \in Paginated /\ HasCursor(env)
    THEN Some(set_pagination(r, env.pagination))
    ELSE None

----------------------------------------------------------------------------
(* Response payloads the HTTP capability may hand back *)

\* an object from its (name, value) members
Members(ps) == JObj([k \in {ps[i][1] : i \in DOMAIN ps} |->
                        ps[CHOOSE i \in DOMAIN ps : ps[i][1] = k][2]])

Put(f, k, v) == Single(k, v) @@ f
Drop(f, k) == [x \in DOMAIN f \ {k} |-> f[x]]

SampleCursor == <<"eyJiIjpudWxsLCJhIjp7IkN1cnNvciI6IjEwMDQ3MzA2NDo4NjQwNjU3MToxSVZCVDFKMnY5M1BTOXh3d1E0dUdXMkJOMFcifX0">>

BannedEventsCursor == <<"eyJiIjpudWxsLCJhIjp7IkN1cnNvciI6IjE5OTYwNDI2MzoyMDIxMjA1MzE6MUlQRnFtbHU5VzJxNG1YWGpVTHlNOHpYMHJiIn19">>

Envelope(records, cursor) ==
    Members(<< <<"data", JArr(records)>>,
               <<"pagination", Members(<< <<"cursor", JStr(cursor)>> >>)>> >>)

ModeratorJson(id, name) ==
    Members(<< <<"user_id", JStr(<<id>>)>>, <<"user_name", JStr(<<name>>)>> >>)

\* the payload of get_moderators::test_request
ModeratorsSample ==
    Envelope(<<ModeratorJson("424596340", "quotrok"), ModeratorJson("424596340", "quotrok")>>,
             SampleCursor)

EventJson(id, type, stamp, data) ==
    Members(<< <<"id", JStr(<<id>>)>>, <<"event_type", JStr(<<type>>)>>,
               <<"event_timestamp", JStr(stamp)>>, <<"version", JStr(<<"1.0">>)>>,
               <<"event_data", Members(data)>> >>)

EventDataJson(uid, uname) ==
    << <<"broadcaster_id", JStr(<<"198704263">>)>>, <<"broadcaster_name", JStr(<<"aan22209">>)>>,
       <<"user_id", JStr(<<uid>>)>>, <<"user_name", JStr(<<uname>>)>> >>

\* the payload of get_moderator_events::test_request
ModeratorEventsSample ==
    Envelope(<<EventJson("1IVBTnDSUDApiBQW4UBcVTK4hPr", "moderation.moderator.remove",
                         <<"2019-03-15T18", ":", "18", ":", "14Z">>,
                         EventDataJson("423374343", "glowillig")),
               EventJson("1IVIPQdYIEnD8nJ376qkASDzsj7", "moderation.moderator.add",
                         <<"2019-03-15T19", ":", "15", ":", "13Z">>,
                         EventDataJson("423374343", "glowillig")),
               EventJson("1IVBTP7gG61oXLMu7fvnRhrpsro", "moderation.moderator.remove",
                         <<"2019-03-15T18", ":", "18", ":", "11Z">>,
                         EventDataJson("424596340", "quotrok"))>>,
             SampleCursor)

BannedUserJson(id, name, stamp) ==
    Members(<< <<"user_id", JStr(<<id>>)>>, <<"user_name", JStr(<<name>>)>>,
               <<"expires_at", JStr(stamp)>> >>)

\* the payload of get_banned_users::test_request
BannedUsersSample ==
    Envelope(<<BannedUserJson("423374343", "glowillig", <<"2019-03-15T02", ":", "00", ":", "28Z">>),
               BannedUserJson("424596340", "quotrok", <<"2018-08-07T02", ":", "07", ":", "55Z">>)>>,
             SampleCursor)

BanDataJson == EventDataJson("424596340", "quotrok") \o << <<"expires_at", JStr(<<>>)>> >>

\* the payload of get_banned_events::test_request
BannedEventsSample ==
    Envelope(<<EventJson("1IPFqAb0p0JncbPSTEPhx8JF1Sa", "moderation.user.ban",
                         <<"2019-03-13T15", ":", "55", ":", "14Z">>, BanDataJson),
               EventJson("1IPFsDv5cs4mxfJ1s2O9Q5flf4Y", "moderation.user.unban",
                         <<"2019-03-13T15", ":", "55", ":", "30Z">>, BanDataJson),
               EventJson("1IPFqmlu9W2q4mXXjULyM8zX0rb", "moderation.user.ban",
                         <<"2019-03-13T15", ":", "55", ":", "19Z">>, BanDataJson)>>,
             BannedEventsCursor)

AutoModJson(id, permitted) ==
    Members(<< <<"msg_id", JStr(<<id>>)>>, <<"is_permitted", JBool(permitted)>> >>)

\* the payload of check_automod_status::test_request: "data" alone
AutoModSample ==
    Members(<< <<"data", JArr(<<AutoModJson("123", TRUE), AutoModJson("393", FALSE)>>)>> >>)

Sample(kind) ==
    CASE kind = "GetModeratorsRequest" -> ModeratorsSample
      [] kind = "GetModeratorEventsRequest" -> ModeratorEventsSample
      [] kind = "GetBannedUsersRequest" -> BannedUsersSample
      [] kind = "GetBannedEventsRequest" -> BannedEventsSample
      [] kind = "CheckAutoModStatusRequest" -> AutoModSample

\* variations of a payload
WithData(p, records) == JObj(Put(p.v, "data", JArr(records)))
WithoutPagination(p) == JObj(Drop(p.v, "pagination"))
WithoutCursor(p) == JObj(Put(p.v, "pagination", JObj(<<>>)))
WithCursor(p, jv) == JObj(Put(p.v, "pagination", Members(<< <<"cursor", jv>> >>)))
WithRecord(p, i, rec) == WithData(p, [p.v["data"].v EXCEPT ![i] = rec])
\* record i with one more member, of a name no schema has
WithUnknownField(p, i) ==
    WithRecord(p, i, JObj(Put(p.v["data"].v[i].v, "extra", JStr(<<"x">>))))
\* record i with a member removed
WithoutField(p, i, name) == WithRecord(p, i, JObj(Drop(p.v["data"].v[i].v, name)))
\* record i with a member of another JSON type
WithRetypedField(p, i, name) ==
    WithRecord(p, i, JObj(Put(p.v["data"].v[i].v, name, JNum(1))))

\* the payloads a response to a request of a kind is drawn from
Payloads(kind) ==
    LET p == Sample(kind)
        records == p.v["data"].v
        schema == ResponseSchema(kind)
    IN  {p, WithoutPagination(p), WithoutCursor(p), WithCursor(p, JNull),
         WithCursor(p, JStr(<<>>)), WithCursor(p, JStr(<<"abc", "=">>)),
         WithData(p, <<>>), WithData(p, <<records[1]>>),
         WithoutField(p, 1, schema[1][1]),
         WithoutField(p, Len(records), schema[Len(schema)][1]),
         WithRetypedField(p, Len(records), schema[Len(schema)][1])}
        \cup {WithUnknownField(p, i) : i \in DOMAIN records}
        \cup {WithoutPagination(WithUnknownField(p, 1))}

----------------------------------------------------------------------------
(* Behaviour *)

Init ==
    /\ strict \in BOOLEAN
    /\ granted \in Credentials
    /\ builder \in {Some([kind |-> k, given |-> <<>>]) : k \in Kinds}
    /\ req = None
    /\ uri = None
    /\ posted = None
    /\ body = None
    /\ wire = None
    /\ resp = None
    /\ pc = "builder"
    /\ pages = 0

\* a setter of the typed builder: each field can be set once
Setter ==
    /\ pc = "builder"
    /\ \E i \in DOMAIN Fields(builder[1].kind) :
         LET f == Fields(builder[1].kind)[i] IN
           /\ f \notin DOMAIN builder[1].given
           /\ \E v \in SetterValues(f) :
                builder' = Some([builder[1] EXCEPT !.given = Single(f, v) @@ @])
    /\ UNCHANGED <<strict, granted, req, uri, posted, body, wire, resp, pc, pages>>

\* whether build() exists for a builder: every mandatory field was given
CanBuild(b) == Mandatory(b.kind) \subseteq DOMAIN b.given

\* build() consumes the builder and gives the descriptor
Build ==
    /\ pc = "builder"
    /\ CanBuild(builder[1])
    /\ req' = Some(BuildRequest(builder[1]))
    /\ builder' = None
    /\ pc' = "built"
    /\ UNCHANGED <<strict, granted, uri, posted, body, wire, resp, pages>>

\* build() does not exist while a mandatory field is missing: the program
\* is rejected and no descriptor comes to exist
BuildRejected ==
    /\ pc = "builder"
    /\ ~CanBuild(builder[1])
    /\ pc' = "rejected"
    /\ UNCHANGED <<strict, granted, builder, req, uri, posted, body, wire, resp, pages>>

\* get_uri() on the descriptor
GetUri ==
    /\ pc = "built"
    /\ uri' = Some(GetUriOf(req[1]))
    /\ pc' = "uri"
    /\ UNCHANGED <<strict, granted, builder, req, posted, body, wire, resp, pages>>

\* body(): the POST body of a sequence of body-parameter records
Body ==
    /\ pc = "uri"
    /\ req[1].kind \in RequestPost
    /\ \E bs \in SeqUpTo(BodyRecords, MaxBody) :
         /\ posted' = Some(bs)
         /\ body' = Some(BodyOf(bs))
    /\ pc' = "body"
    /\ UNCHANGED <<strict, granted, builder, req, uri, wire, resp, pages>>

\* ReadyToSend that lets a GET be dispatched again while its answer is awaited
ReadyToSend_Pipelined ==
    \/ pc \in {"uri", "sent"} /\ req[1].kind \notin RequestPost
    \/ pc = "body" /\ body[1].ok

\* whether the request is complete: a GET has its URI, a POST its body too
ReadyToSend ==
    \/ pc = "uri" /\ req[1].kind \notin RequestPost
    \/ pc = "body" /\ body[1].ok

\* the HTTP capability executes the request and hands back a payload
Send ==
    /\ ReadyToSend
    /\ \E p \in Payloads(req[1].kind) : wire' = Some(p)
    /\ resp' = None
    /\ pc' = "sent"
    /\ UNCHANGED <<strict, granted, builder, req, uri, posted, body, pages>>

\* the HTTP capability fails: the error goes to the caller
TransportError ==
    /\ ReadyToSend
    /\ wire' = None
    /\ resp' = Some(Failure("transport"))
    /\ pc' = "failed"
    /\ UNCHANGED <<strict, granted, builder, req, uri, posted, body, pages>>

\* ParseResponse that goes on to build the next page's descriptor by itself
\* when the envelope carries a cursor
ParseResponse_AutoFetch ==
    /\ pc = "sent"
    /\ resp' = Some(ParseResponseOf(req[1].kind, strict, wire[1]))
    /\ IF NextRequest(req[1], resp'[1]) # None /\ pages < MaxPages
       THEN req' = NextRequest(req[1], resp'[1]) /\ pc' = "built" /\ pages' = pages + 1
       ELSE req' = req /\ pc' = (IF resp'[1].ok THEN "decoded" ELSE "failed")
                      /\ pages' = pages
    /\ UNCHANGED <<strict, granted, builder, uri, posted, body, wire>>

\* parse_response() on the payload handed back
ParseResponse ==
    /\ pc = "sent"
    /\ resp' = Some(ParseResponseOf(req[1].kind, strict, wire[1]))
    /\ pc' = IF resp'[1].ok THEN "decoded" ELSE "failed"
    /\ UNCHANGED <<strict, granted, builder, req, uri, posted, body, wire, pages>>

\* the caller asks for the next page and the envelope carries a cursor
NextPage ==
    /\ pc = "decoded"
    /\ pages < MaxPages
    /\ NextRequest(req[1], resp[1]) # None
    /\ req' = NextRequest(req[1], resp[1])
    /\ pages' = pages + 1
    /\ pc' = "built"
    /\ UNCHANGED <<strict, granted, builder, uri, posted, body, wire, resp>>

\* the caller asks for the next page and there is none
Exhausted ==
    /\ pc = "decoded"
    /\ NextRequest(req[1], resp[1]) = None
    /\ pc' = "exhausted"
    /\ UNCHANGED <<strict, granted, builder, req, uri, posted, body, wire, resp, pages>>

\* the caller stops after a page
Stop ==
    /\ pc = "decoded"
    /\ pc' = "done"
    /\ UNCHANGED <<strict, granted, builder, req, uri, posted, body, wire, resp, pages>>

Next ==
    \/ Setter
    \/ Build
    \/ BuildRejected
    \/ GetUri
    \/ Body
    \/ Send
    \/ TransportError
    \/ ParseResponse
    \/ NextPage
    \/ Exhausted
    \/ Stop

Spec == Init /\ [][Next]_vars

----------------------------------------------------------------------------
(* set_pagination called by hand: the caller sets the cursor of a descriptor *)
(* it holds to any value, any number of times, between URI builds            *)

\* set_pagination(cursor) on the descriptor
SetPaginationTo(cursor) ==
    /\ pc \in {"built", "uri"}
    /\ req[1].kind \in Paginated
    /\ pages < MaxPages
    /\ req' = Some(set_pagination(req[1], cursor))
    /\ pages' = pages + 1
    /\ pc' = "built"
    /\ UNCHANGED <<strict, granted, builder, uri, posted, body, wire, resp>>

\* set_pagination with any Option<helix::Cursor>
SetPagination == \E cursor \in SetterValues("after") : SetPaginationTo(cursor)

NextPagination ==
    \/ Setter
    \/ Build
    \/ GetUri
    \/ SetPagination

\* neither the decoding mode nor the credential bears on set_pagination:
\* one build configuration and one credential are enough
InitPagination == Init /\ strict /\ granted = {ModerationRead}

SpecPagination == InitPagination /\ [][NextPagination]_vars

----------------------------------------------------------------------------
(* Reading a URI back: its query string split at '&' and '=' and decoded *)

\* the bytes outside the unreserved set of form-urlencoding that texts hold
ReservedTokens == {" ", "&", "=", "+", "%", ":", "/", "?", "#", "\"", "\\"}

Unreserved(s) == \A i \in DOMAIN s : s[i] \notin ReservedTokens

\* the byte a token of an encoded text stands for
DecodeToken(t) ==
    CASE t = "+" -> " "
      [] t = "%26" -> "&"
      [] t = "%3D" -> "="
      [] t = "%2B" -> "+"
      [] t = "%25" -> "%"
      [] t = "%3A" -> ":"
      [] t = "%2F" -> "/"
      [] OTHER -> t

FormDecode(s) == [i \in DOMAIN s |-> DecodeToken(s[i])]

\* the first position of a token in a sequence, 0 when it is not there
FirstIndex(s, tok) ==
    IF \A i \in DOMAIN s : s[i] # tok THEN 0
    ELSE CHOOSE i \in DOMAIN s : s[i] = tok /\ \A k \in 1..(i - 1) : s[k] # tok

RECURSIVE SplitAt(_, _)
\* the pieces of a sequence between the occurrences of a token
SplitAt(s, tok) ==
    IF FirstIndex(s, tok) = 0 THEN <<s>>
    ELSE <<SubSeq(s, 1, FirstIndex(s, tok) - 1)>>
         \o SplitAt(SubSeq(s, FirstIndex(s, tok) + 1, Len(s)), tok)

\* the (name, value) of one piece name=value, decoded
ParseParam(piece) ==
    IF FirstIndex(piece, "=") = 0 THEN <<FormDecode(piece), <<>> >>
    ELSE <<FormDecode(SubSeq(piece, 1, FirstIndex(piece, "=") - 1)),
           FormDecode(SubSeq(piece, FirstIndex(piece, "=") + 1, Len(piece)))>>

\* the query string of a URI: what follows its '?'
QueryOfUri(u) == SubSeq(u, FirstIndex(u, "?") + 1, Len(u))

\* the parameters of a URI, in the order they appear
ParamsOfUri(u) ==
    IF QueryOfUri(u) = <<>> THEN <<>>
    ELSE [i \in DOMAIN SplitAt(QueryOfUri(u), "&") |->
            ParseParam(SplitAt(QueryOfUri(u), "&")[i])]

\* a descriptor whose optional fields all hold their default
OnlyMandatory(r) ==
    /\ "user_id" \in DOMAIN r => r.user_id = <<>>
    /\ "after" \in DOMAIN r => r.after = None
    /\ "first" \in DOMAIN r => r.first = None

\* the path the endpoint table gives a request type
EndpointPath(kind) ==
    CASE kind = "GetModeratorsRequest" -> "moderation/moderators"
      [] kind = "GetModeratorEventsRequest" -> "moderation/moderators/events"
      [] kind = "GetBannedUsersRequest" -> "moderation/banned"
      [] kind = "GetBannedEventsRequest" -> "moderation/banned/events"
      [] kind = "CheckAutoModStatusRequest" -> "moderation/enforcements/status"

----------------------------------------------------------------------------
(* Claims *)

\* C1 as stated: for each of the five endpoints and every broadcaster_id, the
\* URI of a descriptor with only broadcaster_id set is exactly
\* https://api.twitch.tv/helix/<PATH>?broadcaster_id=<value>, the value as given.
C1_RawValueUri ==
    (pc = "uri" /\ OnlyMandatory(req[1])) =>
        Str(uri[1]) = "https://api.twitch.tv/helix/" \o EndpointPath(req[1].kind)
                      \o "?broadcaster_id=" \o Str(req[1].broadcaster_id)

\* C1, amended: for each of the five endpoints and every broadcaster_id, the
\* URI of a descriptor with only broadcaster_id set is
\* https://api.twitch.tv/helix/<PATH>?broadcaster_id=<v> and nothing more, where
\* <v> is the form-urlencoded broadcaster_id: <v> holds no '&' and no '=',
\* decodes to the broadcaster_id, and is the broadcaster_id itself when that
\* holds only unreserved bytes.
C1_EncodedValueUri ==
    (pc = "uri" /\ OnlyMandatory(req[1])) =>
        LET u == uri[1]
            v == SubSeq(u, 6, Len(u))
        IN  /\ Len(u) >= 5
            /\ SubSeq(u, 1, 5) = <<"https://api.twitch.tv/helix/", EndpointPath(req[1].kind),
                                   "?", "broadcaster_id", "=">>
            /\ "&" \notin Range(v)
            /\ "=" \notin Range(v)
            /\ FormDecode(v) = req[1].broadcaster_id
            /\ Unreserved(req[1].broadcaster_id) =>
                  Str(u) = "https://api.twitch.tv/helix/" \o EndpointPath(req[1].kind)
                           \o "?broadcaster_id=" \o Str(req[1].broadcaster_id)

\* a URI was built for a mandatory-only descriptor whose id needs encoding
C1_Witness ==
    /\ pc = "uri"
    /\ OnlyMandatory(req[1])
    /\ req[1].kind = "GetBannedEventsRequest"
    /\ req[1].broadcaster_id = <<"a", " ", "b">>
    /\ Str(uri[1]) = "https://api.twitch.tv/helix/moderation/banned/events?broadcaster_id=a+b"

\* the names of the parameters of a URI
ParamNames(u) == {ParamsOfUri(u)[i][1] : i \in DOMAIN ParamsOfUri(u)}

\* C2: the query string holds a parameter for a field if and only if the field
\* is not at its default: `after` None, an empty `user_id` list and `first`
\* None give no parameter, every field that is set gives its parameter (the
\* mandatory broadcaster_id always does), and no other parameter appears.
C2_ParameterIffSet ==
    pc = "uri" =>
        LET r == req[1]
            names == ParamNames(uri[1])
        IN  /\ <<"broadcaster_id">> \in names
            /\ "user_id" \in DOMAIN r => (<<"user_id">> \in names <=> r.user_id # <<>>)
            /\ "after" \in DOMAIN r => (<<"after">> \in names <=> r.after # None)
            /\ "first" \in DOMAIN r => (<<"first">> \in names <=> r.first # None)
            /\ \A n \in names : \E f \in DOMAIN r \ {"kind"} : n = <<f>>

\* a URI was built for a descriptor with `first` set and no other filter
C2_Witness ==
    /\ pc = "uri"
    /\ req[1].kind = "GetBannedEventsRequest"
    /\ req[1].user_id = <<>>
    /\ req[1].after = None
    /\ req[1].first = Some(100)
    /\ Str(uri[1]) = "https://api.twitch.tv/helix/moderation/banned/events?broadcaster_id=198704263&first=100"

\* the place of a field in the declaration order of the descriptors
DeclarationRank(name) ==
    CASE name = <<"broadcaster_id">> -> 1
      [] name = <<"user_id">> -> 2
      [] name = <<"after">> -> 3
      [] name = <<"first">> -> 4
      [] OTHER -> 5

IsUserIdParam(p) == p[1] = <<"user_id">>

\* C3: for a descriptor with a non-empty user_id list, the query string has
\* one user_id parameter per list element, in list order, and the parameters of
\* all present fields come in declaration order: broadcaster_id, user_id,
\* after, first.
C3_RepeatedInDeclarationOrder ==
    (pc = "uri" /\ "user_id" \in DOMAIN req[1] /\ req[1].user_id # <<>>) =>
        LET r == req[1]
            ps == ParamsOfUri(uri[1])
            users == SelectSeq(ps, IsUserIdParam)
        IN  /\ [i \in DOMAIN users |-> users[i][2]] = r.user_id
            /\ \A i \in 1..(Len(ps) - 1) :
                 DeclarationRank(ps[i][1]) <= DeclarationRank(ps[i + 1][1])
            /\ ps[1] = << <<"broadcaster_id">>, r.broadcaster_id >>
            /\ r.after # None => \E i \in DOMAIN ps : ps[i] = << <<"after">>, r.after[1] >>
            /\ ("first" \in DOMAIN r /\ r.first # None) =>
                 ps[Len(ps)] = << <<"first">>, <<ToString(r.first[1])>> >>

\* a URI was built for a descriptor with two user ids, a cursor and a limit
C3_Witness ==
    /\ pc = "uri"
    /\ req[1].kind = "GetBannedEventsRequest"
    /\ req[1].user_id = << <<"2">>, <<"x", "&", "y">> >>
    /\ Str(uri[1]) = "https://api.twitch.tv/helix/moderation/banned/events?broadcaster_id=198704263&user_id=2&user_id=x%26y&after=abc%3D&first=100"

\* C4: for each of the four paginated request types, the paginator applied to
\* a descriptor and an envelope carrying a non-empty cursor c gives a descriptor
\* whose `after` is c and whose every other field is the original's.
C4_NextPageChangesCursorOnly ==
    [][(pc = "decoded" /\ pc' = "built"
        /\ resp[1].pagination # None /\ resp[1].pagination[1] # <<>>)
       => /\ req'[1].after = resp[1].pagination
          /\ DOMAIN req'[1] = DOMAIN req[1]
          /\ \A f \in DOMAIN req[1] \ {"after"} : req'[1][f] = req[1][f]]_vars

\* a second page was asked of a descriptor with a user_id filter and a limit
C4_Witness ==
    /\ pc = "built"
    /\ pages = 1
    /\ req[1].kind = "GetBannedEventsRequest"
    /\ req[1].after = Some(BannedEventsCursor)
    /\ req[1].user_id = << <<"2">>, <<"x", "&", "y">> >>
    /\ req[1].first = Some(100)
    /\ resp[1].pagination = Some(BannedEventsCursor)

\* the envelope last decoded carries no cursor or an empty one
NoContinuation == resp[1].pagination = None \/ resp[1].pagination[1] = <<>>

\* C5: from an envelope whose cursor is absent or empty the paginator is
\* Exhausted and never produces a next-page descriptor, however many pages
\* were fetched before.
C5_ExhaustedProducesNothing ==
    [][(pc = "decoded" /\ NoContinuation)
       => (req' = req /\ pages' = pages /\ pc' \in {"exhausted", "done"})]_vars

\* after a fetched page, an envelope with an explicitly empty cursor ended
\* the listing
C5_Witness ==
    /\ pc = "exhausted"
    /\ pages = 1
    /\ resp[1].ok
    /\ resp[1].pagination = Some(<<>>)

\* a response was decoded, or failed to decode, and its payload is at hand
Parsed ==
    /\ pc \in {"decoded", "failed", "exhausted", "done"}
    /\ wire # None
    /\ resp # None

\* the members each record schema declares
DeclaredMembers(kind) ==
    CASE kind = "GetModeratorsRequest" -> {"user_id", "user_name"}
      [] kind = "GetModeratorEventsRequest" ->
            {"id", "event_type", "event_timestamp", "version", "event_data"}
      [] kind = "GetBannedUsersRequest" -> {"user_id", "user_name", "expires_at"}
      [] kind = "GetBannedEventsRequest" ->
            {"id", "event_type", "event_timestamp", "version", "event_data"}
      [] kind = "CheckAutoModStatusRequest" -> {"msg_id", "is_permitted"}

\* the records of a payload
PayloadRecords(p) == p.v["data"].v

\* the members of the records of a payload that the schema does not declare
UnknownMembers(kind, p) ==
    UNION {{<<i, m>> : m \in DOMAIN PayloadRecords(p)[i].v \ DeclaredMembers(kind)} :
              i \in DOMAIN PayloadRecords(p)}

\* a payload with the undeclared members of its records removed
Stripped(kind, p) ==
    WithData(p, [i \in DOMAIN PayloadRecords(p) |->
                    JObj([m \in DOMAIN PayloadRecords(p)[i].v \cap DeclaredMembers(kind) |->
                            PayloadRecords(p)[i].v[m]])])

\* C6: one switch decides the decoding policy of all five record schemas: a
\* payload that is well-formed but for one unknown member in one record fails
\* to decode in strict mode, and in lenient mode decodes to the envelope that
\* strict mode gives for the payload with that member removed.
C6_StrictRejectsLenientIgnores ==
    (/\ Parsed
     /\ Cardinality(UnknownMembers(req[1].kind, wire[1])) = 1
     /\ ParseResponseOf(req[1].kind, TRUE, Stripped(req[1].kind, wire[1])).ok)
    => /\ strict => ~resp[1].ok
       /\ ~strict => /\ resp[1].ok
                     /\ resp[1] = ParseResponseOf(req[1].kind, TRUE,
                                                  Stripped(req[1].kind, wire[1]))

\* in lenient mode a payload with an unknown member in its last record decoded
C6_Witness ==
    /\ pc = "decoded"
    /\ ~strict
    /\ req[1].kind = "GetBannedUsersRequest"
    /\ wire[1] = WithUnknownField(BannedUsersSample, 2)
    /\ Len(resp[1].data) = 2
    /\ DOMAIN resp[1].data[2] = {"user_id", "user_name", "expires_at"}

\* the texts of the string members a JSON object holds
TextsOf(jv) == [k \in DOMAIN jv.v |-> jv.v[k].v]

\* a decoded record holds the values of the payload record it comes from
SameRecord(kind, jv, rec) ==
    /\ DOMAIN rec = DeclaredMembers(kind)
    /\ kind \in {"GetModeratorsRequest", "GetBannedUsersRequest"} =>
          /\ rec.user_id = jv.v["user_id"].v
          /\ rec.user_name = jv.v["user_name"].v
    /\ kind = "GetBannedUsersRequest" =>
          rec.expires_at = IF "expires_at" \in DOMAIN jv.v /\ jv.v["expires_at"].t = "str"
                           THEN Some(jv.v["expires_at"].v) ELSE None
    /\ kind \in {"GetModeratorEventsRequest", "GetBannedEventsRequest"} =>
          /\ rec.id = jv.v["id"].v
          /\ rec.event_type = jv.v["event_type"].v
          /\ rec.event_timestamp = jv.v["event_timestamp"].v
          /\ rec.version = jv.v["version"].v
          /\ rec.event_data = TextsOf(jv.v["event_data"])

\* the sample payload of a listing endpoint, or it with another cursor or
\* with fewer records
WellFormedListing(kind, p) ==
    /\ kind \in Paginated
    /\ p.t = "obj"
    /\ DOMAIN p.v = {"data", "pagination"}
    /\ p.v["pagination"].t = "obj"
    /\ DOMAIN p.v["pagination"].v = {"cursor"}
    /\ p.v["pagination"].v["cursor"].t = "str"
    /\ \E n \in 0..Len(PayloadRecords(Sample(kind))) :
         PayloadRecords(p) = SubSeq(PayloadRecords(Sample(kind)), 1, n)

\* C7: for each of the four listing endpoints a well-formed payload decodes,
\* to an envelope with as many records as the payload's data array, in the
\* same order with the same field values, and with the payload's cursor; the
\* sample ban-events payload gives exactly 3 records, of event_type ban, unban,
\* ban, each with an empty expires_at in its event_data.
C7_DecodeKeepsRecordsAndCursor ==
    (Parsed /\ WellFormedListing(req[1].kind, wire[1])) =>
        LET env == resp[1]
            recs == PayloadRecords(wire[1])
        IN  /\ env.ok
            /\ Len(env.data) = Len(recs)
            /\ \A i \in DOMAIN recs : SameRecord(req[1].kind, recs[i], env.data[i])
            /\ env.pagination = Some(wire[1].v["pagination"].v["cursor"].v)
            /\ (req[1].kind = "GetBannedEventsRequest" /\ wire[1] = BannedEventsSample) =>
                  /\ Len(env.data) = 3
                  /\ [i \in 1..3 |-> env.data[i].event_type] =
                        << <<"moderation.user.ban">>, <<"moderation.user.unban">>,
                           <<"moderation.user.ban">> >>
                  /\ \A i \in 1..3 : env.data[i].event_data["expires_at"] = <<>>
                  /\ env.pagination = Some(BannedEventsCursor)

\* the sample ban-events payload was decoded in strict mode
C7_Witness ==
    /\ pc = "decoded"
    /\ strict
    /\ req[1].kind = "GetBannedEventsRequest"
    /\ wire[1] = BannedEventsSample
    /\ Len(resp[1].data) = 3
    /\ resp[1].data[2].event_type = <<"moderation.user.unban">>

\* a payload with the sample's records and no pagination, no cursor, or an
\* empty cursor
WithoutContinuation(kind, p) ==
    /\ p.t = "obj"
    /\ PayloadRecords(p) = PayloadRecords(Sample(kind))
    /\ \/ DOMAIN p.v = {"data"}
       \/ /\ DOMAIN p.v = {"data", "pagination"}
          /\ p.v["pagination"].t = "obj"
          /\ \/ DOMAIN p.v["pagination"].v = {}
             \/ /\ DOMAIN p.v["pagination"].v = {"cursor"}
                /\ p.v["pagination"].v["cursor"] = JStr(<<>>)

\* C8: a payload whose pagination object is absent, or whose cursor is absent
\* or empty, decodes successfully, to an envelope that carries its records and
\* no continuation cursor; the check-automod-status payload, which has only
\* "data", decodes to its two records.
C8_AbsentCursorDecodes ==
    (Parsed /\ WithoutContinuation(req[1].kind, wire[1])) =>
        LET env == resp[1] IN
            /\ env.ok
            /\ Len(env.data) = Len(PayloadRecords(wire[1]))
            /\ env.pagination = None \/ env.pagination = Some(<<>>)
            /\ req[1].kind = "CheckAutoModStatusRequest" =>
                  env.data = << [msg_id |-> <<"123">>, is_permitted |-> TRUE],
                                [msg_id |-> <<"393">>, is_permitted |-> FALSE] >>

\* a listing payload without a pagination object was decoded
C8_Witness ==
    /\ pc = "exhausted"
    /\ req[1].kind = "GetModeratorsRequest"
    /\ "pagination" \notin DOMAIN wire[1].v
    /\ resp[1].ok
    /\ Len(resp[1].data) = 2
    /\ resp[1].pagination = None

----------------------------------------------------------------------------
(* Reading a JSON text back: objects of string members, arrays of objects *)

ReadFailure(i) == [ok |-> FALSE, val |-> <<>>, next |-> i]

\* the position of the first '"' at or after i, 0 when there is none
NextQuote(t, i) ==
    IF \A j \in i..Len(t) : t[j] # "\"" THEN 0
    ELSE CHOOSE j \in i..Len(t) : t[j] = "\"" /\ \A k \in i..(j - 1) : t[k] # "\""

UnescapeToken(x) ==
    CASE x = "\\\"" -> "\""
      [] x = "\\\\" -> "\\"
      [] OTHER -> x

\* the string literal that starts at i
ReadString(t, i) ==
    IF i <= Len(t) /\ t[i] = "\"" /\ NextQuote(t, i + 1) # 0
    THEN [ok |-> TRUE,
          val |-> [k \in 1..(NextQuote(t, i + 1) - i - 1) |-> UnescapeToken(t[i + k])],
          next |-> NextQuote(t, i + 1) + 1]
    ELSE ReadFailure(i)

RECURSIVE ReadMembers(_, _)
\* the members "name":"value" from i up to the closing '}'
ReadMembers(t, i) ==
    LET k == ReadString(t, i)
        v == ReadString(t, k.next + 1)
    IN  IF ~k.ok \/ k.next > Len(t) \/ t[k.next] # ":" \/ ~v.ok \/ v.next > Len(t)
        THEN ReadFailure(i)
        ELSE IF t[v.next] = "}"
        THEN [ok |-> TRUE, val |-> << <<k.val, v.val>> >>, next |-> v.next + 1]
        ELSE IF t[v.next] = ","
        THEN LET rest == ReadMembers(t, v.next + 1)
             IN  [ok |-> rest.ok, val |-> << <<k.val, v.val>> >> \o rest.val,
                  next |-> rest.next]
        ELSE ReadFailure(i)

ReadObject(t, i) ==
    IF i <= Len(t) /\ t[i] = "{" THEN ReadMembers(t, i + 1) ELSE ReadFailure(i)

RECURSIVE ReadElements(_, _)
\* the objects from i up to the closing ']'
ReadElements(t, i) ==
    LET o == ReadObject(t, i)
    IN  IF ~o.ok \/ o.next > Len(t)
        THEN ReadFailure(i)
        ELSE IF t[o.next] = "]"
        THEN [ok |-> TRUE, val |-> <<o.val>>, next |-> o.next + 1]
        ELSE IF t[o.next] = ","
        THEN LET rest == ReadElements(t, o.next + 1)
             IN  [ok |-> rest.ok, val |-> <<o.val>> \o rest.val, next |-> rest.next]
        ELSE ReadFailure(i)

ReadArray(t, i) ==
    IF i + 1 <= Len(t) /\ t[i] = "["
    THEN IF t[i + 1] = "]" THEN [ok |-> TRUE, val |-> <<>>, next |-> i + 2]
         ELSE ReadElements(t, i + 1)
    ELSE ReadFailure(i)

\* a text of the form {"key":[...]}: its one key and the elements of its array
ReadWrapped(t) ==
    LET k == ReadString(t, 2)
        a == ReadArray(t, k.next + 1)
    IN  IF /\ Len(t) >= 1
           /\ t[1] = "{"
           /\ k.ok
           /\ k.next <= Len(t)
           /\ t[k.next] = ":"
           /\ a.ok
           /\ a.next = Len(t)
           /\ t[a.next] = "}"
        THEN [ok |-> TRUE, key |-> k.val, elements |-> a.val]
        ELSE [ok |-> FALSE, key |-> <<>>, elements |-> <<>>]

\* C9: body() of any sequence of CheckAutoModStatusBody records returns a
\* JSON object with the single key "data" whose value is the array of those
\* records, one element per record in the given order, each with its msg_id,
\* msg_text and user_id; the empty sequence gives {"data":[]}.
C9_BodyWrapsRecordsInData ==
    pc = "body" =>
        LET b == ReadWrapped(body[1].text)
            bs == posted[1]
        IN  /\ body[1].ok
            /\ b.ok
            /\ b.key = <<"data">>
            /\ Len(b.elements) = Len(bs)
            /\ \A i \in DOMAIN bs :
                 /\ Len(b.elements[i]) = 3
                 /\ Range(b.elements[i]) = { << <<"msg_id">>, bs[i].msg_id >>,
                                             << <<"msg_text">>, bs[i].msg_text >>,
                                             << <<"user_id">>, bs[i].user_id >> }
            /\ bs = <<>> => Str(body[1].text) = "{\"data\":[]}"

\* body() was applied to two records, one with quotes in its text
C9_Witness ==
    /\ pc = "body"
    /\ Len(posted[1]) = 2
    /\ posted[1][1].msg_id = <<"test1">>
    /\ posted[1][2].msg_id = <<"123">>
    /\ Str(body[1].text) = "{\"data\":[{\"msg_id\":\"test1\",\"msg_text\":\"automod please\",\"user_id\":\"1234\"},{\"msg_id\":\"123\",\"msg_text\":\"say \\\"hi\\\"\",\"user_id\":\"5\"}]}"

----------------------------------------------------------------------------
(* One listing, page after page *)

----------------------------------------------------------------------------
(* Who asks for the next page *)

\* C12: pagination is pull-based: decoding an envelope builds and dispatches
\* nothing, even when the envelope carries a cursor; the descriptor of the next
\* page comes to exist only by the caller's own next-page step on a decoded
\* envelope, which the caller is free not to take.
C12_PullBased ==
    /\ [][pc = "sent"
          => /\ req' = req
             /\ uri' = uri
             /\ wire' = wire
             /\ pages' = pages
             /\ pc' \in {"decoded", "failed"}]_vars
    /\ [][(req # None /\ req' # req)
          => /\ pc = "decoded"
             /\ pc' = "built"
             /\ resp' = resp
             /\ wire' = wire]_vars
    /\ [](pc = "decoded" => ENABLED Stop)

\* the caller stopped after the first page although its envelope carried a
\* cursor: no second request was built
C12_Witness ==
    /\ pc = "done"
    /\ pages = 0
    /\ req[1].kind = "GetModeratorsRequest"
    /\ req[1].after = None
    /\ resp[1].ok
    /\ resp[1].pagination = Some(SampleCursor)
    /\ Str(uri[1]) = "https://api.twitch.tv/helix/moderation/moderators?broadcaster_id=198704263"

----------------------------------------------------------------------------
(* Failures *)

----------------------------------------------------------------------------
(* Scopes are advertised, not enforced *)

\* C14: each of the five descriptors advertises the scope set
\* {moderation:read}, and that is all the core does with it: whatever scopes
\* the credential holds, a built URI is followed by the body or the dispatch,
\* a built body by the dispatch and a payload by its decoding, and the URI,
\* the body and the decoding result are the ones the descriptor, the posted
\* records and the payload alone determine.
C14_ScopeRecordedNotEnforced ==
    /\ \A k \in Kinds : SCOPE(k) = {"moderation:read"}
    /\ pc = "uri" => uri = Some(GetUriOf(req[1]))
    /\ (pc = "uri" /\ req[1].kind \in RequestPost) => ENABLED Body
    /\ (pc = "uri" /\ req[1].kind \notin RequestPost) => ENABLED Send
    /\ pc = "body" => (body = Some(BodyOf(posted[1])) /\ ENABLED Send)
    /\ pc = "sent" => ENABLED ParseResponse
    /\ pc \in {"decoded", "exhausted", "done"}
         => resp = Some(ParseResponseOf(req[1].kind, strict, wire[1]))

\* a POST went through URI, body, dispatch and decoding with a credential
\* that does not hold the scope its descriptor advertises
C14_Witness ==
    /\ pc = "decoded"
    /\ req[1].kind = "CheckAutoModStatusRequest"
    /\ "moderation:read" \in SCOPE(req[1].kind)
    /\ "moderation:read" \notin granted
    /\ uri # None
    /\ body[1].ok
    /\ Len(posted[1]) = 2
    /\ resp[1].ok
    /\ Len(resp[1].data) = 2

----------------------------------------------------------------------------
(* What an operation changes *)

\* C15: over the operations on a descriptor, only the paginate step changes
\* it, and it changes the cursor alone: URI build, body build, dispatch and
\* decoding leave every field as it was.  A decoded envelope is left as it was
\* by URI build, body build and paginate; the caller lets go of it only when
\* the next request is dispatched.
C15_OnlyCursorMutates ==
    [][/\ (req # None /\ req' # req)
          => /\ pc = "decoded"
             /\ pc' = "built"
             /\ req' # None
             /\ DOMAIN req'[1] = DOMAIN req[1]
             /\ "after" \in DOMAIN req[1]
             /\ req'[1].after # req[1].after
             /\ \A f \in DOMAIN req[1] \ {"after"} : req'[1][f] = req[1][f]
       /\ pc \in {"built", "uri", "body", "sent"} => req' = req
       /\ (resp # None /\ resp[1].ok /\ resp' # resp)
          => /\ pc \in {"uri", "body"}
             /\ pc' \in {"sent", "failed"}
             /\ req' = req]_vars

\* the second page of a filtered listing was decoded: the descriptor went
\* through URI build, decoding, paginate and URI build again
C15_Witness ==
    /\ pc = "decoded"
    /\ pages = 1
    /\ req[1].kind = "GetBannedUsersRequest"
    /\ req[1].broadcaster_id = <<"a", " ", "b">>
    /\ req[1].user_id = << <<"2">> >>
    /\ req[1].after = Some(SampleCursor)
    /\ Str(uri[1]) = "https://api.twitch.tv/helix/moderation/banned?broadcaster_id=a+b&user_id=2&after="
                     \o SampleCursor[1]
    /\ resp[1].ok

----------------------------------------------------------------------------
(* set_pagination as a function of the descriptor and its argument *)

\* whether a parameter read back from a URI is not the cursor
NotAfter(param) == param[1] # <<"after">>

\* C16: set_pagination(x) leaves the descriptor with `after` equal to x,
\* whatever it held before, and with every other field as it was; calling it
\* again with the same x changes nothing more; and after set_pagination(None)
\* the URI has no `after` parameter and is otherwise the URI the descriptor
\* had: the first-page URI.
C16_SetPaginationOverwrites ==
    [][\A x \in {None} \cup {Some(c) : c \in Cursors} :
         SetPaginationTo(x)
         => /\ req'[1].after = x
            /\ DOMAIN req'[1] = DOMAIN req[1]
            /\ \A f \in DOMAIN req[1] \ {"after"} : req'[1][f] = req[1][f]
            /\ set_pagination(req'[1], x) = req'[1]
            /\ set_pagination(set_pagination(req[1], x), x) = req'[1]
            /\ x = None
               => /\ ParamsOfUri(GetUriOf(req'[1]))
                       = SelectSeq(ParamsOfUri(GetUriOf(req[1])), NotAfter)
                  /\ \A i \in DOMAIN GetUriOf(req'[1]) : GetUriOf(req'[1])[i] # "after"]_vars

\* set_pagination(None) was called on a descriptor whose URI, built just
\* before, carried the cursor abc= : the descriptor holds no cursor any more
C16_Witness ==
    /\ pc = "built"
    /\ pages = 1
    /\ req[1].kind = "GetBannedEventsRequest"
    /\ req[1].after = None
    /\ req[1].first = Some(100)
    /\ uri # None
    /\ Str(uri[1]) = "https://api.twitch.tv/helix/moderation/banned/events?broadcaster_id=198704263&after=abc%3D&first=100"

====
